---------------------------- MODULE Spec2Model ----------------------------
(***************************************************************************)
(* gogettitles: the paginated title search of package search.              *)
(*                                                                         *)
(* One Search call of one adapter (TmdbSearcher or OmdbSearcher) against a *)
(* provider that serves a corpus of pages.  The call is cut at its only    *)
(* suspension point, client.Do: Loop runs the for-condition and the part   *)
(* of searchPage up to the request, Deliver runs the rest of searchPage on *)
(* the provider's answer and the remainder of the loop body.               *)
(***************************************************************************)
EXTENDS Integers, Sequences, FiniteSets, TLC

\* ------------------------------------------------------------- bounds
\* Pages in the provider's corpus, raw items per page, and the largest
\* maxResults a caller passes.
MaxPages == 2
MaxPageSize == 2
MaxQuota == 3
\* client.Do calls one Search may make before the model stops following it
\* (an honest provider is never asked for more than max(1, MaxPages) pages).
MaxRequests == MaxPages + 1

\* ---------------------------------------------------------- constants
StatusOK == 200
StatusUnauthorized == 401

Movie == "movie"
Series == "series"
Episode == "episode"
ResultType == {Movie, Series, Episode}

TitleNotFound == "Movie not found!"
OmdbOtherError == "Invalid API key!"
TmdbStatusMessage == "Invalid API key"
ProtocolError == "mock protocol error"
DeadlineExceeded == "context deadline exceeded"
Canceled == "context canceled"

Adapters == {"tmdb", "omdb"}
\* media_type values of TMDB's multi search; Type values of OMDB's search.
TmdbNativeTypes == {"movie", "tv", "person"}
OmdbNativeTypes == {"movie", "series", "episode", "game"}
NativeTypes(a) == IF a = "tmdb" THEN TmdbNativeTypes ELSE OmdbNativeTypes

\* ------------------------------------------------------------ helpers
Min(a, b) == IF a <= b THEN a ELSE b
Take(s, n) == SubSeq(s, 1, Min(n, Len(s)))
SeqsUpTo(S, n) == UNION {[1..k -> S] : k \in 0..n}

Digits == <<"0", "1", "2", "3", "4", "5", "6", "7", "8", "9">>
DigitValue(c) == (CHOOSE i \in 1..10 : Digits[i] = c) - 1
IsDigit(c) == \E i \in 1..10 : Digits[i] = c

\* fmt.Sprintf("%d", n): the decimal digits of n, most significant first.
RECURSIVE NatDigits(_)
NatDigits(n) ==
    IF n < 10 THEN <<Digits[n + 1]>>
    ELSE NatDigits(n \div 10) \o <<Digits[(n % 10) + 1]>>
Itoa(n) == IF n < 0 THEN <<"-">> \o NatDigits(-n) ELSE NatDigits(n)

\* strconv.Atoi: an optional sign followed by one or more decimal digits.
RECURSIVE DigitsValue(_, _)
DigitsValue(s, acc) ==
    IF s = <<>> THEN acc
    ELSE DigitsValue(Tail(s), acc * 10 + DigitValue(Head(s)))
Atoi(s) ==
    LET signed == s # <<>> /\ Head(s) \in {"+", "-"}
        body == IF signed THEN Tail(s) ELSE s
    IN  IF body = <<>> \/ \E i \in 1..Len(body) : ~IsDigit(body[i])
        THEN [ok |-> FALSE, val |-> 0]
        ELSE [ok |-> TRUE,
              val |-> IF signed /\ Head(s) = "-"
                      THEN -DigitsValue(body, 0) ELSE DigitsValue(body, 0)]

\* -------------------------------------------------------------- errors
NoError == [kind |-> "nil", cause |-> "", msg |-> <<>>]
\* fmt.Errorf without %w: a plain error carrying only its text.
ErrorString(parts) == [kind |-> "errorString", cause |-> "", msg |-> parts]
\* client.Do's error: a *url.Error wrapping the transport's cause.
UrlError(cause) == [kind |-> "url.Error", cause |-> cause, msg |-> <<"Get: ", cause>>]
\* json.Decoder.Decode's error.
JsonError == [kind |-> "json.SyntaxError", cause |-> "", msg |-> <<"unexpected end of JSON input">>]


\* The error types the package declares.
InvalidMaxResultsError == "InvalidMaxResultsError"
SearchProviderError == "SearchProviderError"
ResultParsingError == "ResultParsingError"

\* ------------------------------------------------------------ provider
\* The raw items of page p of corpus c (a sequence of pages, each the sequence
\* of its items' native types).  id stands for the item's Title, Year,
\* imdbID, Poster and provider id, which the adapters copy unchanged.
PageItems(c, p) ==
    IF p \in 1..Len(c)
    THEN [i \in 1..Len(c[p]) |-> [id |-> <<p, i>>, typ |-> c[p][i]]]
    ELSE <<>>

RECURSIVE ItemCount(_)
ItemCount(c) == IF c = <<>> THEN 0 ELSE Len(Head(c)) + ItemCount(Tail(c))

\* What client.Do hands back: an error of the transport, or a response with
\* its status and the fields json.Decode fills into tmdbResponse/omdbResponse.
Response(te, st, dec, items, tp, succ, sm, tr, er) ==
    [transportErr |-> te, status |-> st, decodable |-> dec, items |-> items,
     totalPages |-> tp, success |-> succ, statusMessage |-> sm,
     totalResults |-> tr, Error |-> er]

TransportFailure(cause) == Response(cause, 0, FALSE, <<>>, 0, FALSE, "", <<>>, "")

\* TMDB reporting its totals honestly: total_pages is the number of pages it
\* serves; a success body carries no status_message.
TmdbHonestAnswers(c, p) ==
    {Response("", StatusOK, TRUE, PageItems(c, p), Len(c), succ, "", <<>>, "") :
        succ \in BOOLEAN}

TmdbAnswers(c, p) ==
    {TransportFailure(ProtocolError)}
    \cup {Response("", st, FALSE, <<>>, 0, FALSE, "", <<>>, "") :
            st \in {StatusOK, StatusUnauthorized}}
    \cup {Response("", st, TRUE, PageItems(c, p), tp, succ, sm, <<>>, "") :
            st \in {StatusOK, StatusUnauthorized}, tp \in 0..(MaxPages + 1),
            succ \in BOOLEAN, sm \in {"", TmdbStatusMessage}}

\* OMDB reporting its totals honestly: totalResults is the number of items it
\* serves over all its pages; it may answer "Movie not found!" where nothing
\* is left to serve.
OmdbHonestAnswers(c, p) ==
    {Response("", StatusOK, TRUE, PageItems(c, p), 0, FALSE, "", Itoa(ItemCount(c)), "")}
    \cup (IF \A q \in p..Len(c) : c[q] = <<>>
          THEN {Response("", StatusOK, TRUE, <<>>, 0, FALSE, "", <<>>, TitleNotFound)}
          ELSE {})

OmdbAnswers(c, p) ==
    {TransportFailure(ProtocolError)}
    \cup {Response("", st, FALSE, <<>>, 0, FALSE, "", <<>>, "") :
            st \in {StatusOK, StatusUnauthorized}}
    \cup {Response("", st, TRUE, PageItems(c, p), 0, FALSE, "", tr, "") :
            st \in {StatusOK, StatusUnauthorized},
            tr \in {<<>>, <<"N", "/", "A">>} \cup {Itoa(n) : n \in 0..(ItemCount(c) + 1)}}
    \cup {Response("", st, TRUE, PageItems(c, p), 0, FALSE, "", <<>>, er) :
            st \in {StatusOK, StatusUnauthorized}, er \in {TitleNotFound, OmdbOtherError}}

\* The answers client.Do can return for page p: the context's error once the
\* caller's context is done, else what the provider sends.
Answers(a, c, honest, ctxState, p) ==
    IF ctxState # "live"
    THEN {TransportFailure(IF ctxState = "deadline" THEN DeadlineExceeded ELSE Canceled)}
    ELSE IF a = "tmdb"
    THEN (IF honest THEN TmdbHonestAnswers(c, p) ELSE TmdbAnswers(c, p))
    ELSE (IF honest THEN OmdbHonestAnswers(c, p) ELSE OmdbAnswers(c, p))

\* ------------------------------------------------------------ adapters
\* A SearchResult: the copied fields (id) and its Type.
SearchResult(id, type) == [id |-> id, Type |-> type]

\* TmdbConvert with the break on an exhausted quota left out.
RECURSIVE TmdbConvertNoBreak(_, _, _)
TmdbConvertNoBreak(items, maxRes, res) ==
    IF items = <<>> THEN [maxResults |-> maxRes, results |-> res]
    ELSE LET result == Head(items) IN
         IF result.typ \notin {"movie", "tv"}
         THEN TmdbConvertNoBreak(Tail(items), maxRes, res)
         ELSE TmdbConvertNoBreak(Tail(items), maxRes - 1,
                  Append(res, SearchResult(result.id,
                                  IF result.typ = "movie" THEN Movie ELSE Series)))

\* TmdbConvert charging the quota before it looks at the item's type.
RECURSIVE TmdbConvertCountsSkipped(_, _, _)
TmdbConvertCountsSkipped(items, maxRes, res) ==
    IF items = <<>> THEN [maxResults |-> maxRes, results |-> res]
    ELSE LET result == Head(items) IN
         IF maxRes - 1 < 0
         THEN [maxResults |-> maxRes - 1, results |-> res]
         ELSE IF result.typ \notin {"movie", "tv"}
         THEN TmdbConvertCountsSkipped(Tail(items), maxRes - 1, res)
         ELSE TmdbConvertCountsSkipped(Tail(items), maxRes - 1,
                  Append(res, SearchResult(result.id,
                                  IF result.typ = "movie" THEN Movie ELSE Series)))

\* TmdbSearcher.searchPage, the loop over tmdbResponse.Result: unmapped types
\* are skipped before the quota is touched; the quota is decremented per
\* mapped item and the loop breaks once it drops below zero.
RECURSIVE TmdbConvert(_, _, _)
TmdbConvert(items, maxRes, res) ==
    IF items = <<>> THEN [maxResults |-> maxRes, results |-> res]
    ELSE LET result == Head(items) IN
         IF result.typ \notin {"movie", "tv"}
         THEN TmdbConvert(Tail(items), maxRes, res)
         ELSE IF maxRes - 1 < 0
         THEN [maxResults |-> maxRes - 1, results |-> res]
         ELSE TmdbConvert(Tail(items), maxRes - 1,
                  Append(res, SearchResult(result.id,
                                  IF result.typ = "movie" THEN Movie ELSE Series)))

\* OmdbConvert putting each new result in front of the slice.
RECURSIVE OmdbConvertPrepend(_, _, _)
OmdbConvertPrepend(items, maxRes, res) ==
    IF items = <<>> THEN [maxResults |-> maxRes, results |-> res]
    ELSE LET result == Head(items) IN
         IF maxRes - 1 < 0
         THEN [maxResults |-> maxRes - 1, results |-> res]
         ELSE OmdbConvertPrepend(Tail(items), maxRes - 1,
                  <<SearchResult(result.id, result.typ)>> \o res)

\* OmdbSearcher.searchPage, the loop over omdbResponse.Result: every item is
\* appended with the Type the provider sent, until the quota drops below zero.
RECURSIVE OmdbConvert(_, _, _)
OmdbConvert(items, maxRes, res) ==
    IF items = <<>> THEN [maxResults |-> maxRes, results |-> res]
    ELSE LET result == Head(items) IN
         IF maxRes - 1 < 0
         THEN [maxResults |-> maxRes - 1, results |-> res]
         ELSE OmdbConvert(Tail(items), maxRes - 1,
                  Append(res, SearchResult(result.id, result.typ)))

PageOutcome(next, err, res) == [next |-> next, err |-> err, results |-> res]

\* TmdbSearchPage holding the last page back: pageNumber+1 < TotalPages.
TmdbSearchPageStopsEarly(r, maxRes, page, res) ==
    IF r.transportErr # "" THEN PageOutcome(FALSE, UrlError(r.transportErr), res)
    ELSE IF ~r.decodable THEN PageOutcome(FALSE, JsonError, res)
    ELSE IF r.status # StatusOK \/ (~r.success /\ r.statusMessage # "")
    THEN PageOutcome(FALSE,
             ErrorString(<<"search request failed: ", r.statusMessage>>), res)
    ELSE LET conv == TmdbConvert(r.items, maxRes, res) IN
         PageOutcome(page + 1 < r.totalPages /\ conv.maxResults > 0, NoError, conv.results)

\* TmdbSearchPage asking for one page more: pageNumber <= TotalPages.
TmdbSearchPageOnePastEnd(r, maxRes, page, res) ==
    IF r.transportErr # "" THEN PageOutcome(FALSE, UrlError(r.transportErr), res)
    ELSE IF ~r.decodable THEN PageOutcome(FALSE, JsonError, res)
    ELSE IF r.status # StatusOK \/ (~r.success /\ r.statusMessage # "")
    THEN PageOutcome(FALSE,
             ErrorString(<<"search request failed: ", r.statusMessage>>), res)
    ELSE LET conv == TmdbConvert(r.items, maxRes, res) IN
         PageOutcome(page <= r.totalPages /\ conv.maxResults > 0, NoError, conv.results)

\* TmdbSearchPage going on while quota is left, whatever total_pages says.
TmdbSearchPageIgnoresTotal(r, maxRes, page, res) ==
    IF r.transportErr # "" THEN PageOutcome(FALSE, UrlError(r.transportErr), res)
    ELSE IF ~r.decodable THEN PageOutcome(FALSE, JsonError, res)
    ELSE IF r.status # StatusOK \/ (~r.success /\ r.statusMessage # "")
    THEN PageOutcome(FALSE,
             ErrorString(<<"search request failed: ", r.statusMessage>>), res)
    ELSE LET conv == TmdbConvert(r.items, maxRes, res) IN
         PageOutcome(conv.maxResults > 0, NoError, conv.results)

\* TmdbSearchPage failing whenever the success flag is not set.
TmdbSearchPageRequiresSuccess(r, maxRes, page, res) ==
    IF r.transportErr # "" THEN PageOutcome(FALSE, UrlError(r.transportErr), res)
    ELSE IF ~r.decodable THEN PageOutcome(FALSE, JsonError, res)
    ELSE IF r.status # StatusOK \/ ~r.success
    THEN PageOutcome(FALSE,
             ErrorString(<<"search request failed: ", r.statusMessage>>), res)
    ELSE LET conv == TmdbConvert(r.items, maxRes, res) IN
         PageOutcome(page < r.totalPages /\ conv.maxResults > 0, NoError, conv.results)

\* TmdbSearcher.searchPage from the return of client.Do on.
TmdbSearchPage(r, maxRes, page, res) ==
    IF r.transportErr # "" THEN PageOutcome(FALSE, UrlError(r.transportErr), res)
    ELSE IF ~r.decodable THEN PageOutcome(FALSE, JsonError, res)
    ELSE IF r.status # StatusOK \/ (~r.success /\ r.statusMessage # "")
    THEN PageOutcome(FALSE,
             ErrorString(<<"search request failed: ", r.statusMessage>>), res)
    ELSE LET conv == TmdbConvert(r.items, maxRes, res) IN
         PageOutcome(page < r.totalPages /\ conv.maxResults > 0, NoError, conv.results)

\* OmdbSearchPage asking for another page whenever quota is left, whatever
\* totalResults says.
OmdbSearchPageIgnoresTotal(r, maxRes, page, res) ==
    IF r.transportErr # "" THEN PageOutcome(FALSE, UrlError(r.transportErr), res)
    ELSE IF ~r.decodable THEN PageOutcome(FALSE, JsonError, res)
    ELSE IF r.Error = TitleNotFound THEN PageOutcome(FALSE, NoError, res)
    ELSE IF r.Error # ""
    THEN PageOutcome(FALSE,
             ErrorString(<<"OMDB API request failed with error: ", r.Error>>), res)
    ELSE LET conv == OmdbConvert(r.items, maxRes, res)
             totalResults == Atoi(r.totalResults)
         IN  IF ~totalResults.ok
             THEN PageOutcome(FALSE,
                      ErrorString(<<"failed to convert totalResults to int: ",
                                    "strconv.Atoi: parsing: invalid syntax">>),
                      conv.results)
             ELSE PageOutcome(conv.maxResults > 0, NoError, conv.results)

\* OmdbSearchPage without the check for the not-found sentinel.
OmdbSearchPageNoSentinel(r, maxRes, page, res) ==
    IF r.transportErr # "" THEN PageOutcome(FALSE, UrlError(r.transportErr), res)
    ELSE IF ~r.decodable THEN PageOutcome(FALSE, JsonError, res)
    ELSE IF r.Error # ""
    THEN PageOutcome(FALSE,
             ErrorString(<<"OMDB API request failed with error: ", r.Error>>), res)
    ELSE LET conv == OmdbConvert(r.items, maxRes, res)
             totalResults == Atoi(r.totalResults)
         IN  IF ~totalResults.ok
             THEN PageOutcome(FALSE,
                      ErrorString(<<"failed to convert totalResults to int: ",
                                    "strconv.Atoi: parsing: invalid syntax">>),
                      conv.results)
             ELSE PageOutcome(Len(conv.results) < totalResults.val /\ conv.maxResults > 0,
                              NoError, conv.results)

\* OmdbSearchPage comparing totalResults with what this page alone added.
OmdbSearchPagePageLocal(r, maxRes, page, res) ==
    IF r.transportErr # "" THEN PageOutcome(FALSE, UrlError(r.transportErr), res)
    ELSE IF ~r.decodable THEN PageOutcome(FALSE, JsonError, res)
    ELSE IF r.Error = TitleNotFound THEN PageOutcome(FALSE, NoError, res)
    ELSE IF r.Error # ""
    THEN PageOutcome(FALSE,
             ErrorString(<<"OMDB API request failed with error: ", r.Error>>), res)
    ELSE LET conv == OmdbConvert(r.items, maxRes, res)
             totalResults == Atoi(r.totalResults)
         IN  IF ~totalResults.ok
             THEN PageOutcome(FALSE,
                      ErrorString(<<"failed to convert totalResults to int: ",
                                    "strconv.Atoi: parsing: invalid syntax">>),
                      conv.results)
             ELSE PageOutcome(Len(conv.results) - Len(res) < totalResults.val
                                  /\ conv.maxResults > 0,
                              NoError, conv.results)

\* OmdbSearchPage throwing away what was accumulated when the provider has
\* nothing more.
OmdbSearchPageSentinelClears(r, maxRes, page, res) ==
    IF r.transportErr # "" THEN PageOutcome(FALSE, UrlError(r.transportErr), res)
    ELSE IF ~r.decodable THEN PageOutcome(FALSE, JsonError, res)
    ELSE IF r.Error = TitleNotFound THEN PageOutcome(FALSE, NoError, <<>>)
    ELSE IF r.Error # ""
    THEN PageOutcome(FALSE,
             ErrorString(<<"OMDB API request failed with error: ", r.Error>>), res)
    ELSE LET conv == OmdbConvert(r.items, maxRes, res)
             totalResults == Atoi(r.totalResults)
         IN  IF ~totalResults.ok
             THEN PageOutcome(FALSE,
                      ErrorString(<<"failed to convert totalResults to int: ",
                                    "strconv.Atoi: parsing: invalid syntax">>),
                      conv.results)
             ELSE PageOutcome(Len(conv.results) < totalResults.val /\ conv.maxResults > 0,
                              NoError, conv.results)

\* OmdbSearchPage reading totalResults only while quota is left.
OmdbSearchPageLenientTotal(r, maxRes, page, res) ==
    IF r.transportErr # "" THEN PageOutcome(FALSE, UrlError(r.transportErr), res)
    ELSE IF ~r.decodable THEN PageOutcome(FALSE, JsonError, res)
    ELSE IF r.Error = TitleNotFound THEN PageOutcome(FALSE, NoError, res)
    ELSE IF r.Error # ""
    THEN PageOutcome(FALSE,
             ErrorString(<<"OMDB API request failed with error: ", r.Error>>), res)
    ELSE LET conv == OmdbConvert(r.items, maxRes, res)
             totalResults == Atoi(r.totalResults)
         IN  IF conv.maxResults <= 0
             THEN PageOutcome(FALSE, NoError, conv.results)
             ELSE IF ~totalResults.ok
             THEN PageOutcome(FALSE,
                      ErrorString(<<"failed to convert totalResults to int: ",
                                    "strconv.Atoi: parsing: invalid syntax">>),
                      conv.results)
             ELSE PageOutcome(Len(conv.results) < totalResults.val /\ conv.maxResults > 0,
                              NoError, conv.results)

\* OmdbSearcher.searchPage from the return of client.Do on.
OmdbSearchPage(r, maxRes, page, res) ==
    IF r.transportErr # "" THEN PageOutcome(FALSE, UrlError(r.transportErr), res)
    ELSE IF ~r.decodable THEN PageOutcome(FALSE, JsonError, res)
    ELSE IF r.Error = TitleNotFound THEN PageOutcome(FALSE, NoError, res)
    ELSE IF r.Error # ""
    THEN PageOutcome(FALSE,
             ErrorString(<<"OMDB API request failed with error: ", r.Error>>), res)
    ELSE LET conv == OmdbConvert(r.items, maxRes, res)
             totalResults == Atoi(r.totalResults)
         IN  IF ~totalResults.ok
             THEN PageOutcome(FALSE,
                      ErrorString(<<"failed to convert totalResults to int: ",
                                    "strconv.Atoi: parsing: invalid syntax">>),
                      conv.results)
             ELSE PageOutcome(Len(conv.results) < totalResults.val /\ conv.maxResults > 0,
                              NoError, conv.results)

\* SearchPage filling a slice of its own instead of the caller's.
SearchPageFreshSlice(a, r, maxRes, page, res) ==
    IF a = "tmdb" THEN TmdbSearchPage(r, maxRes, page, <<>>)
    ELSE OmdbSearchPage(r, maxRes, page, <<>>)

\* searchPage of the adapter the caller holds.
SearchPage(a, r, maxRes, page, res) ==
    IF a = "tmdb" THEN TmdbSearchPage(r, maxRes, page, res)
    ELSE OmdbSearchPage(r, maxRes, page, res)

\* --------------------------------------------------------------- state
VARIABLES
    adapter,     \* which Searcher the caller holds
    corpus,      \* the pages the provider serves for the query
    honest,      \* whether the provider answers every page and reports true totals
    ctx,         \* the caller's context: "live", "canceled" or "deadline"
    pc,          \* where the Search call is: "idle", "loop", "waiting", "done"
    maxResults,  \* Search's maxResults argument
    results,     \* Search's results slice
    pageNumber,  \* Search's pageNumber
    requests,    \* the page numbers handed to client.Do, in order
    inflight,    \* client.Do calls that have not returned
    processed,   \* searchPage calls that have returned
    lastResp,    \* what client.Do returned to the latest searchPage call (NoResponse until it does)
    lastCall,    \* the latest searchPage call: its maxResults and pageNumber arguments,
                 \* len(*results) on entry and the bool it returned
    err,         \* the error Search returned
    ret,         \* the slice Search returned
    retNil,      \* whether that slice is nil
    conv,        \* TmdbSearcher.searchPage's conversion loop followed item by item:
                 \* the decoded items, the loop's position, maxResults and *results
    calls        \* two goroutines calling Search on the one searcher: each call's
                 \* frame, the locals of Search, and what the provider served per page

vars == <<adapter, corpus, honest, ctx, pc, maxResults, results, pageNumber,
          requests, inflight, processed, lastResp, lastCall, err, ret, retNil, conv,
          calls>>

NoResponse == TransportFailure("")

\* No page decoded yet.
NoPage == [stage |-> "idle", items |-> <<>>, i |-> 0, maxResults |-> 0, results |-> <<>>]

\* The goroutines that call Search on the same searcher.
Calls == {1, 2}

\* A call that has not begun; interleaved records that a page was delivered to
\* the call while another call was running.
IdleCall ==
    [pc |-> "idle", maxResults |-> 0, remaining |-> 0, page |-> 0,
     err |-> NoError, ret |-> <<>>, retNil |-> TRUE, interleaved |-> FALSE]

NoCalls ==
    [frame  |-> [c \in Calls |-> IdleCall],
     locals |-> [c \in Calls |-> [results |-> <<>>, pageNumber |-> 0]],
     served |-> [p \in 1..MaxRequests |-> NoResponse]]

\* The corpora: up to MaxPages pages of up to MaxPageSize items each; the
\* native type of an item is drawn per position in the page.
Corpora(a) ==
    {[p \in 1..Len(sz) |-> [i \in 1..sz[p] |-> ty[i]]] :
        sz \in SeqsUpTo(0..MaxPageSize, MaxPages),
        ty \in [1..MaxPageSize -> NativeTypes(a)]}

Init ==
    /\ adapter \in Adapters
    /\ corpus \in Corpora(adapter)
    /\ honest \in BOOLEAN
    /\ ctx = "live"
    /\ pc = "idle"
    /\ maxResults = 0
    /\ results = <<>>
    /\ pageNumber = 0
    /\ requests = <<>>
    /\ inflight = 0
    /\ processed = 0
    /\ lastResp = NoResponse
    /\ lastCall = [remaining |-> 0, before |-> 0, page |-> 0, next |-> FALSE]
    /\ err = NoError
    /\ ret = <<>>
    /\ retNil = TRUE
    /\ conv = NoPage
    /\ calls = NoCalls

\* SearchBody returning what was accumulated together with the error.
SearchBodyPartial(out, page) ==
    IF out.err # NoError
    THEN [pc |-> "done", err |-> out.err, ret |-> out.results, retNil |-> FALSE, page |-> page]
    ELSE IF ~out.next
    THEN [pc |-> "done", err |-> NoError, ret |-> out.results, retNil |-> FALSE, page |-> page]
    ELSE [pc |-> "loop", err |-> NoError, ret |-> <<>>, retNil |-> TRUE, page |-> page + 1]

\* SearchBody without pageNumber++.
SearchBodySamePage(out, page) ==
    IF out.err # NoError
    THEN [pc |-> "done", err |-> out.err, ret |-> <<>>, retNil |-> TRUE, page |-> page]
    ELSE IF ~out.next
    THEN [pc |-> "done", err |-> NoError, ret |-> out.results, retNil |-> FALSE, page |-> page]
    ELSE [pc |-> "loop", err |-> NoError, ret |-> <<>>, retNil |-> TRUE, page |-> page]

\* SearchBody asking for the page again when searchPage failed.
SearchBodyRetry(out, page) ==
    IF out.err # NoError
    THEN [pc |-> "loop", err |-> NoError, ret |-> <<>>, retNil |-> TRUE, page |-> page]
    ELSE IF ~out.next
    THEN [pc |-> "done", err |-> NoError, ret |-> out.results, retNil |-> FALSE, page |-> page]
    ELSE [pc |-> "loop", err |-> NoError, ret |-> <<>>, retNil |-> TRUE, page |-> page + 1]

\* SearchBody going on to the next page whatever searchPage's bool says.
SearchBodyIgnoresNext(out, page) ==
    IF out.err # NoError
    THEN [pc |-> "done", err |-> out.err, ret |-> <<>>, retNil |-> TRUE, page |-> page]
    ELSE [pc |-> "loop", err |-> NoError, ret |-> <<>>, retNil |-> TRUE, page |-> page + 1]

\* SearchBody with a ceiling on the pages: it stops after page MaxPages.
SearchBodyPageCeiling(out, page) ==
    IF out.err # NoError
    THEN [pc |-> "done", err |-> out.err, ret |-> <<>>, retNil |-> TRUE, page |-> page]
    ELSE IF ~out.next \/ page >= MaxPages
    THEN [pc |-> "done", err |-> NoError, ret |-> out.results, retNil |-> FALSE, page |-> page]
    ELSE [pc |-> "loop", err |-> NoError, ret |-> <<>>, retNil |-> TRUE, page |-> page + 1]

\* What one pass of Search's loop body does with searchPage's outcome: return
\* nil and the error, break and return the results, or go on to the next page.
SearchBody(out, page) ==
    IF out.err # NoError
    THEN [pc |-> "done", err |-> out.err, ret |-> <<>>, retNil |-> TRUE, page |-> page]
    ELSE IF ~out.next
    THEN [pc |-> "done", err |-> NoError, ret |-> out.results, retNil |-> FALSE, page |-> page]
    ELSE [pc |-> "loop", err |-> NoError, ret |-> <<>>, retNil |-> TRUE, page |-> page + 1]

\* Search rejecting only a negative maxResults.
SearchAcceptsZero ==
    /\ pc = "idle"
    /\ \E m \in -1..MaxQuota :
        /\ maxResults' = m
        /\ IF m < 0
           THEN /\ pc' = "done"
                /\ err' = ErrorString(<<"invalid value for maxResults: ">> \o Itoa(m))
                /\ UNCHANGED <<results, pageNumber>>
           ELSE /\ pc' = "loop"
                /\ results' = <<>>
                /\ pageNumber' = 1
                /\ UNCHANGED err
    /\ UNCHANGED <<adapter, corpus, honest, ctx, requests, inflight, processed,
                   lastResp, lastCall, ret, retNil, conv, calls>>

\* Search is called: the maxResults check, then results and pageNumber are set up.
Search ==
    /\ pc = "idle"
    /\ \E m \in -1..MaxQuota :
        /\ maxResults' = m
        /\ IF m <= 0
           THEN /\ pc' = "done"
                /\ err' = ErrorString(<<"invalid value for maxResults: ">> \o Itoa(m))
                /\ UNCHANGED <<results, pageNumber>>
           ELSE /\ pc' = "loop"
                /\ results' = <<>>
                /\ pageNumber' = 1
                /\ UNCHANGED err
    /\ UNCHANGED <<adapter, corpus, honest, ctx, requests, inflight, processed,
                   lastResp, lastCall, ret, retNil, conv, calls>>

\* The for-condition; when it holds, searchPage up to and including client.Do.
Loop ==
    /\ pc = "loop"
    /\ Len(results) < maxResults => Len(requests) < MaxRequests
    /\ IF Len(results) < maxResults
       THEN IF maxResults - Len(results) <= 0
            THEN /\ pc' = "done"
                 /\ err' = ErrorString(<<"invalid value for maxResults: ">>
                                        \o Itoa(maxResults - Len(results)))
                 /\ UNCHANGED <<requests, inflight, ret, retNil, lastResp>>
            ELSE /\ pc' = "waiting"
                 /\ requests' = Append(requests, pageNumber)
                 /\ inflight' = inflight + 1
                 /\ lastResp' = NoResponse
                 /\ UNCHANGED <<err, ret, retNil>>
       ELSE /\ pc' = "done"
            /\ ret' = results
            /\ retNil' = FALSE
            /\ UNCHANGED <<err, requests, inflight, lastResp>>
    /\ UNCHANGED <<adapter, corpus, honest, ctx, maxResults, results, pageNumber,
                   processed, lastCall, conv, calls>>

\* client.Do returns; the rest of searchPage and of the loop body run.
Deliver ==
    /\ pc = "waiting"
    /\ \E r \in Answers(adapter, corpus, honest, ctx, pageNumber) :
        LET out == SearchPage(adapter, r, maxResults - Len(results), pageNumber, results)
            step == SearchBody(out, pageNumber)
        IN  /\ lastResp' = r
            /\ lastCall' = [remaining |-> maxResults - Len(results), before |-> Len(results),
                            page |-> pageNumber, next |-> out.next]
            /\ results' = out.results
            /\ pc' = step.pc
            /\ err' = step.err
            /\ ret' = step.ret
            /\ retNil' = step.retNil
            /\ pageNumber' = step.page
    /\ inflight' = inflight - 1
    /\ processed' = processed + 1
    /\ UNCHANGED <<adapter, corpus, honest, ctx, maxResults, requests, conv, calls>>

\* The caller cancels the context, or its deadline passes, while Search runs
\* or before it is called.
CtxDone ==
    /\ pc # "done"
    /\ ctx = "live"
    /\ \E c \in {"canceled", "deadline"} : ctx' = c
    /\ UNCHANGED <<adapter, corpus, honest, pc, maxResults, results, pageNumber,
                   requests, inflight, processed, lastResp, lastCall, err, ret, retNil,
                   conv, calls>>

Next == Search \/ Loop \/ Deliver \/ CtxDone

Spec == Init /\ [][Next]_vars

\* The same call against a provider that reports its totals honestly and
\* always answers.
InitHonest == Init /\ honest

\* The call is scheduled and client.Do returns: every enabled step is taken.
LiveSpec == InitHonest /\ [][Next]_vars /\ WF_vars(Next)

\* ------------------------------------- TMDB's conversion, item by item
\* The variables of the calls, which the conversion loop leaves alone.
allCalls == <<adapter, corpus, honest, ctx, pc, maxResults, results, pageNumber,
              requests, inflight, processed, lastResp, lastCall, err, ret, retNil, calls>>

\* The items json.Decode can fill into tmdbResponse.Result, by the fields the
\* conversion reads: a movie comes with "title", a tv show or a person with
\* "name", and a body may carry both or neither.
TmdbRawItems == [title : {"", "Alien"}, name : {"", "Aliens"}, typ : TmdbNativeTypes]

\* resultTitle with the two fields the other way round.
TmdbTitlePrefersName(result) ==
    IF result.name # "" THEN result.name ELSE result.title

\* resultTitle: Title when it is not empty, else Name.
TmdbTitle(result) ==
    IF result.title # "" THEN result.title ELSE result.name

\* json.Decode has filled tmdbResponse and the status check has passed: the
\* range loop starts with the maxResults searchPage was given and the
\* caller's slice.  The i-th item's "id" is i.
TmdbDecode ==
    /\ conv.stage = "idle"
    /\ \E its \in SeqsUpTo(TmdbRawItems, MaxPageSize), m \in 1..MaxQuota :
        conv' = [stage |-> "range", items |-> its, i |-> 1, maxResults |-> m,
                 results |-> <<>>]
    /\ UNCHANGED allCalls

\* One pass of the range loop over tmdbResponse.Result, or its end.
TmdbConvertItem ==
    /\ conv.stage = "range"
    /\ IF conv.i > Len(conv.items)
       THEN conv' = [conv EXCEPT !.stage = "done"]
       ELSE LET result == conv.items[conv.i]
                resultTitle == TmdbTitle(result)
            IN  IF result.typ \notin {"movie", "tv"}
                THEN conv' = [conv EXCEPT !.i = @ + 1]
                ELSE IF conv.maxResults - 1 < 0
                THEN conv' = [conv EXCEPT !.stage = "done", !.maxResults = @ - 1]
                ELSE conv' = [conv EXCEPT
                         !.i = @ + 1,
                         !.maxResults = @ - 1,
                         !.results = Append(@,
                             [Title |-> resultTitle,
                              Type |-> IF result.typ = "movie" THEN Movie ELSE Series,
                              ProviderId |-> Itoa(conv.i)])]
    /\ UNCHANGED allCalls

ConvNext == TmdbDecode \/ TmdbConvertItem

\* A TMDB searcher about to convert one page.
ConvInit == Init /\ adapter = "tmdb" /\ honest /\ corpus = <<>>

ConvSpec == ConvInit /\ [][ConvNext]_vars

\* ---------------------------------------------------- concurrent calls
\* The variables of the single call, which the concurrent calls leave alone.
oneCall == <<adapter, corpus, honest, ctx, pc, maxResults, results, pageNumber,
             requests, inflight, processed, lastResp, lastCall, err, ret, retNil, conv>>

\* results and pageNumber held by the searcher instead of by the call.
LocalsOfSearcher(c) == 1

\* results and pageNumber are declared in Search's body: every call has its
\* own pair; the searcher holds only apiKey and client, which Search reads.
LocalsOf(c) == c

\* Call c enters Search: the maxResults check, then its results and pageNumber.
CallSearch(c) ==
    /\ calls.frame[c].pc = "idle"
    /\ \E m \in -1..MaxQuota :
        IF m <= 0
        THEN calls' = [calls EXCEPT !.frame[c] =
                 [@ EXCEPT !.pc = "done", !.maxResults = m,
                           !.err = ErrorString(<<"invalid value for maxResults: ">> \o Itoa(m))]]
        ELSE calls' = [calls EXCEPT
                 !.frame[c] = [@ EXCEPT !.pc = "loop", !.maxResults = m],
                 !.locals[LocalsOf(c)] = [results |-> <<>>, pageNumber |-> 1]]
    /\ UNCHANGED oneCall

\* Call c's for-condition; when it holds, searchPage is called with
\* maxResults-len(results) and pageNumber as they are now, and runs up to and
\* including client.Do (its own maxResults check cannot fail: the quota left is
\* positive here).
CallLoop(c) ==
    LET f == calls.frame[c]
        l == calls.locals[LocalsOf(c)]
    IN  /\ f.pc = "loop"
        /\ Len(l.results) < f.maxResults => l.pageNumber <= MaxRequests
        /\ IF Len(l.results) < f.maxResults
           THEN calls' = [calls EXCEPT !.frame[c] =
                    [f EXCEPT !.pc = "waiting",
                              !.remaining = f.maxResults - Len(l.results),
                              !.page = l.pageNumber]]
           ELSE calls' = [calls EXCEPT !.frame[c] =
                    [f EXCEPT !.pc = "done", !.ret = l.results, !.retNil = FALSE]]
        /\ UNCHANGED oneCall

\* client.Do returns to call c; the rest of searchPage and of the loop body
\* run.  The provider answers a page the same way whoever asks and whenever.
CallDeliver(c) ==
    LET f == calls.frame[c]
        l == calls.locals[LocalsOf(c)]
    IN  /\ f.pc = "waiting"
        /\ \E r \in (IF calls.served[f.page] = NoResponse
                     THEN Answers(adapter, corpus, honest, "live", f.page)
                     ELSE {calls.served[f.page]}) :
            LET out == SearchPage(adapter, r, f.remaining, f.page, l.results)
                step == SearchBody(out, l.pageNumber)
            IN  calls' = [calls EXCEPT
                    !.served[f.page] = r,
                    !.locals[LocalsOf(c)] = [results |-> out.results, pageNumber |-> step.page],
                    !.frame[c] = [f EXCEPT
                        !.pc = step.pc, !.err = step.err, !.ret = step.ret,
                        !.retNil = step.retNil,
                        !.interleaved = @ \/ \E d \in Calls \ {c} :
                                            calls.frame[d].pc \in {"loop", "waiting"}]]
        /\ UNCHANGED oneCall

ConcNext == \E c \in Calls : CallSearch(c) \/ CallLoop(c) \/ CallDeliver(c)

\* No call has begun.  A provider that misreports is followed over the
\* corpora whose pages are all full.
ConcInit ==
    /\ Init
    /\ ~honest => /\ Len(corpus) = MaxPages
                  /\ \A p \in 1..MaxPages : Len(corpus[p]) = MaxPageSize

\* Two calls of Search on one searcher, their steps interleaved in any order.
ConcSpec == ConcInit /\ [][ConcNext]_vars

\* The outcome of Search(ctx, query, m) run on its own against a provider that
\* answers page p with served[p]: the loop of Search replayed from page 1.
RECURSIVE AloneFrom(_, _, _, _, _)
AloneFrom(a, m, served, page, res) ==
    IF ~(Len(res) < m)
    THEN [pc |-> "done", err |-> NoError, ret |-> res, retNil |-> FALSE]
    ELSE IF page > MaxRequests \/ served[page] = NoResponse
    THEN [pc |-> "waiting", err |-> NoError, ret |-> <<>>, retNil |-> TRUE]
    ELSE LET out == SearchPage(a, served[page], m - Len(res), page, res)
             step == SearchBody(out, page)
         IN  IF step.pc = "done"
             THEN [pc |-> "done", err |-> step.err, ret |-> step.ret, retNil |-> step.retNil]
             ELSE AloneFrom(a, m, served, step.page, out.results)

Alone(a, m, served) ==
    IF m <= 0
    THEN [pc |-> "done", err |-> ErrorString(<<"invalid value for maxResults: ">> \o Itoa(m)),
          ret |-> <<>>, retNil |-> TRUE]
    ELSE AloneFrom(a, m, served, 1, <<>>)

\* ------------------------------------------------- what the claims use
\* The items of a page that the adapter turns into results, as results: TMDB
\* maps "movie" and "tv" and skips the rest, OMDB takes every item as it is.
Canonical(a, items) ==
    IF a = "tmdb"
    THEN LET kept == SelectSeq(items, LAMBDA it : it.typ \in {"movie", "tv"})
         IN  [i \in 1..Len(kept) |->
                 SearchResult(kept[i].id, IF kept[i].typ = "movie" THEN Movie ELSE Series)]
    ELSE [i \in 1..Len(items) |-> SearchResult(items[i].id, items[i].typ)]

\* The results of pages 1..n of the corpus, page after page.
RECURSIVE CanonicalUpTo(_, _, _)
CanonicalUpTo(a, c, n) ==
    IF n = 0 THEN <<>>
    ELSE CanonicalUpTo(a, c, n - 1) \o Canonical(a, PageItems(c, n))

\* T: the results the whole corpus holds.
CorpusResults == CanonicalUpTo(adapter, corpus, Len(corpus))

\* The pages whose items searchPage got to convert: every page asked for,
\* but for an OMDB page answered with the not-found sentinel.
PagesConverted ==
    IF adapter = "omdb" /\ lastResp.Error = TitleNotFound
    THEN Len(requests) - 1 ELSE Len(requests)

Returned == pc = "done"
Succeeded == pc = "done" /\ err = NoError

CtxCause == IF ctx = "deadline" THEN DeadlineExceeded ELSE Canceled

\* ---------------------------------------------------------------- claims
\* C1: for every maxResults <= 0, Search of either adapter returns an error
\* and a nil slice and has made no request to the provider.
InvalidMaxResultsFails ==
    (Returned /\ maxResults <= 0) =>
        /\ err # NoError
        /\ retNil /\ ret = <<>>
        /\ requests = <<>> /\ inflight = 0 /\ processed = 0

InvalidMaxResultsWitness ==
    Returned /\ maxResults = 0 /\ adapter = "omdb" /\ corpus # <<>>

\* C2: the accumulated results never outnumber maxResults, neither while the
\* call runs nor in what it returns, and one searchPage call appends at most
\* its maxResults argument (maxResults - len(results)), however many raw items
\* the page holds.
QuotaNeverExceeded ==
    /\ (pc # "idle" /\ maxResults >= 1) => Len(results) <= maxResults
    /\ Returned => Len(ret) <= IF maxResults >= 1 THEN maxResults ELSE 0
    /\ processed > 0 =>
        /\ lastCall.remaining = maxResults - lastCall.before
        /\ Len(results) - lastCall.before <= lastCall.remaining

QuotaWitness ==
    /\ processed = 2
    /\ lastCall.before > 0
    /\ Len(Canonical(adapter, lastResp.items)) > lastCall.remaining
    /\ Len(results) = maxResults

\* C3: against a provider that reports its totals honestly, a successful
\* Search with maxResults >= 1 returns exactly min(T, maxResults) results,
\* T being the number of items of the corpus the adapter maps.
HonestCount ==
    (honest /\ Succeeded /\ maxResults >= 1) =>
        /\ ~retNil
        /\ Len(ret) = Min(Len(CorpusResults), maxResults)

HonestCountWitness ==
    /\ honest /\ Succeeded
    /\ Len(requests) = 2
    /\ Len(CorpusResults) > maxResults
    /\ Len(ret) = maxResults

\* C4: a successful Search returns the first maxResults elements (all, if
\* there are fewer) of the pages' mapped items taken in ascending page order
\* and in provider order within a page; against an honest provider that is
\* the first min(maxResults, T) elements of the whole corpus.
ReturnedPrefix ==
    (Succeeded /\ maxResults >= 1) =>
        /\ ret = Take(CanonicalUpTo(adapter, corpus, PagesConverted), maxResults)
        /\ honest => ret = Take(CorpusResults, maxResults)

ReturnedPrefixWitness ==
    /\ Succeeded
    /\ Len(requests) = 2
    /\ Len(Canonical(adapter, PageItems(corpus, 1))) = MaxPageSize
    /\ Len(Canonical(adapter, PageItems(corpus, 2))) = MaxPageSize
    /\ Len(ret) = (2 * MaxPageSize) - 1

\* C5: whenever Search returns an error, the slice it returns is nil, however
\* many pages it had accumulated.
AllOrNothing ==
    (Returned /\ err # NoError) => (retNil /\ ret = <<>>)

AllOrNothingWitness ==
    Returned /\ err # NoError /\ processed >= 2 /\ Len(results) > lastCall.before
        /\ lastCall.before > 0

\* C6: against an honest provider that always answers, every Search call that
\* entered its loop (maxResults >= 1) eventually returns.
HonestTerminates == (pc \in {"loop", "waiting"}) ~> (pc = "done")

HonestTerminatesWitness ==
    /\ honest /\ Succeeded
    /\ Len(requests) = MaxPages
    /\ Len(ret) < maxResults

\* C7: the pages asked for are 1, 2, ..., n in this order, each once; at most
\* one request is in flight; a page is asked for only when every earlier one
\* has been processed.
Sequential ==
    /\ \A i \in 1..Len(requests) : requests[i] = i
    /\ inflight \in {0, 1}
    /\ inflight = 1 <=> pc = "waiting"
    /\ Len(requests) = processed + inflight
    /\ pc \in {"loop", "waiting"} => pageNumber = processed + 1

SequentialWitness ==
    pc = "waiting" /\ Len(requests) = MaxRequests /\ adapter = "tmdb"

\* C8: when the context is cancelled or its deadline passes before or during
\* the fetch of a page, Search returns nil and the context's error, and asks
\* for no page after the fetch that failed.
CancellationFails ==
    /\ (Returned /\ ctx # "live" /\ requests # <<>>) =>
        (err = UrlError(CtxCause) /\ retNil)
    /\ lastResp.transportErr \in {DeadlineExceeded, Canceled} =>
        /\ Returned
        /\ err = UrlError(lastResp.transportErr)
        /\ inflight = 0
        /\ Len(requests) = processed

CancellationWitness ==
    /\ Returned /\ ctx = "deadline"
    /\ Len(requests) = 2
    /\ results # <<>>
    /\ err.cause = DeadlineExceeded

\* C9: when OMDB answers the first page with the Error "Movie not found!",
\* Search returns an empty, non-nil slice and no error, and asks for no
\* further page.
NotFoundIsEmptySuccess ==
    (/\ adapter = "omdb"
     /\ processed = 1
     /\ lastResp.transportErr = "" /\ lastResp.decodable
     /\ lastResp.Error = TitleNotFound) =>
        /\ Returned
        /\ err = NoError
        /\ ~retNil /\ ret = <<>>
        /\ requests = <<1>>

NotFoundWitness ==
    /\ adapter = "omdb" /\ processed = 1 /\ Returned
    /\ lastResp.Error = TitleNotFound
    /\ lastResp.items # <<>>
    /\ ~honest

\* C10: every result Search returns, from either adapter, has its Type in
\* {Movie, Series, Episode}; items of any other native type are left out.
ClosedResultType ==
    (Returned /\ ~retNil) =>
        \A i \in 1..Len(ret) : ret[i].Type \in ResultType

\* -------------------------------------------------- claims C11 to C20
\* The latest searchPage call got a response it could decode.
Decoded == processed >= 1 /\ lastResp.transportErr = "" /\ lastResp.decodable

\* The latest response is one the TMDB adapter converts: status 200 and no
\* status_message next to a false success flag.
TmdbPage ==
    /\ adapter = "tmdb" /\ Decoded
    /\ lastResp.status = StatusOK
    /\ lastResp.success \/ lastResp.statusMessage = ""

\* The latest response is one the OMDB adapter converts and whose
\* totalResults it could read.
OmdbPage ==
    /\ adapter = "omdb" /\ Decoded
    /\ lastResp.Error = ""
    /\ Atoi(lastResp.totalResults).ok

\* How many items of the latest TMDB page have a mapped media_type.
MappedOnPage ==
    Cardinality({i \in 1..Len(lastResp.items) : lastResp.items[i].typ \in {"movie", "tv"}})

AppendedByPage == Len(results) - lastCall.before

\* Whether an error's text holds the given text.
Contains(e, text) == text = "" \/ \E i \in 1..Len(e.msg) : e.msg[i] = text

\* C11: a TMDB page with k mapped items and any number of unmapped ones, in
\* any order, adds min(k, remaining) results: unmapped items use no quota.
FilteringUsesNoQuota ==
    TmdbPage => AppendedByPage = Min(MappedOnPage, lastCall.remaining)

FilteringWitness ==
    /\ TmdbPage
    /\ Len(lastResp.items) = MaxPageSize
    /\ lastResp.items[1].typ = "person"
    /\ MappedOnPage = lastCall.remaining
    /\ lastCall.before > 0

\* C12: when the provider reports a failure of its own, Search fails with a
\* SearchProviderError whose message holds the provider's text verbatim.
ProviderFailureIsSearchProviderError ==
    (/\ Returned /\ Decoded
     /\ IF adapter = "tmdb"
        THEN lastResp.status # StatusOK
                 \/ (~lastResp.success /\ lastResp.statusMessage # "")
        ELSE lastResp.Error \notin {"", TitleNotFound}) =>
        /\ err.kind = SearchProviderError
        /\ Contains(err, IF adapter = "tmdb" THEN lastResp.statusMessage
                                             ELSE lastResp.Error)

\* C13: when a page's body cannot be decoded, Search fails with a
\* ResultParsingError.
UndecodableIsResultParsingError ==
    (Returned /\ processed >= 1 /\ lastResp.transportErr = "" /\ ~lastResp.decodable) =>
        err.kind = ResultParsingError

\* C14: the error Search returns for maxResults <= 0 is an
\* InvalidMaxResultsError.
InvalidMaxResultsIsTyped ==
    (Returned /\ maxResults <= 0) => err.kind = InvalidMaxResultsError

\* C15: two calls of Search running concurrently on one searcher share no
\* mutable state: however their page fetches interleave, each call returns
\* the results and the error it returns when it runs alone against a provider
\* that answers every page the same way.
ConcurrentCallsIndependent ==
    \A c \in Calls :
        calls.frame[c].pc = "done" =>
            LET f == calls.frame[c]
                alone == Alone(adapter, f.maxResults, calls.served)
            IN  /\ alone.pc = "done"
                /\ f.err = alone.err
                /\ f.ret = alone.ret
                /\ f.retNil = alone.retNil

\* Both calls have returned results drawn from two pages, under different
\* quotas, and each received a page while the other was running.
ConcurrentCallsWitness ==
    /\ \A c \in Calls :
        /\ calls.frame[c].pc = "done"
        /\ calls.frame[c].err = NoError
        /\ calls.frame[c].interleaved
        /\ calls.frame[c].page = 2
        /\ Len(calls.frame[c].ret) >= 2
    /\ calls.frame[1].maxResults < calls.frame[2].maxResults

\* C16: after a page is processed without error, the next page is asked for
\* if and only if searchPage reported more pages and len(results) < maxResults;
\* no request is made once the results have reached maxResults.
LoopContinuation ==
    /\ (processed >= 1 /\ Len(requests) > processed) =>
            (lastCall.next /\ Len(results) < maxResults)
    /\ (processed >= 1 /\ err = NoError /\ lastCall.next /\ Len(results) < maxResults) =>
            /\ ~Returned
            /\ pageNumber = processed + 1
    /\ (maxResults >= 1 /\ Len(results) >= maxResults) =>
            (pc # "waiting" /\ Len(requests) = processed)

LoopContinuationWitness ==
    /\ Succeeded
    /\ Len(results) = maxResults
    /\ Len(requests) = 2
    /\ adapter = "tmdb"
    /\ lastResp.totalPages > lastCall.page

\* C17: a successful TMDB page fetch reports more pages if and only if its
\* page number is below the response's total_pages and the items mapped from
\* the page left quota over.
TmdbContinuation ==
    TmdbPage =>
        (lastCall.next <=> (/\ lastCall.page < lastResp.totalPages
                            /\ MappedOnPage < lastCall.remaining))

TmdbContinuationWitness ==
    /\ TmdbPage
    /\ lastCall.page = 2
    /\ lastCall.page = lastResp.totalPages
    /\ MappedOnPage < lastCall.remaining
    /\ Len(results) > 0
    /\ ~lastCall.next

\* C18: a successful OMDB page fetch reports more pages if and only if the
\* results accumulated over the whole call are fewer than the response's
\* totalResults and the page left quota over.
OmdbContinuation ==
    OmdbPage =>
        (lastCall.next <=> (/\ Len(results) < Atoi(lastResp.totalResults).val
                            /\ Len(lastResp.items) < lastCall.remaining))

OmdbContinuationWitness ==
    /\ OmdbPage
    /\ lastCall.page = 2
    /\ lastCall.before > 0
    /\ AppendedByPage < Atoi(lastResp.totalResults).val
    /\ Len(results) = Atoi(lastResp.totalResults).val
    /\ Len(results) < maxResults
    /\ ~lastCall.next

\* C19: a page response with a status other than 2xx makes Search fail,
\* whatever its decoded body holds.
Non2xxFails ==
    (Returned /\ Decoded /\ lastResp.status # StatusOK) =>
        (err # NoError /\ retNil)

\* C20: a transport failure of a page request makes Search fail with a
\* SearchProviderError that wraps the cause and whose message holds its text.
TransportFailureIsSearchProviderError ==
    (Returned /\ processed >= 1 /\ lastResp.transportErr # "") =>
        /\ err.kind = SearchProviderError
        /\ err.cause = lastResp.transportErr
        /\ Contains(err, lastResp.transportErr)
\* ---------------------------------------------------- claims C21 to C27
\* C21: the Title of every result TMDB's conversion appends is the item's
\* title when that is not empty, and the item's name otherwise.
TmdbTitleResolution ==
    \A k \in 1..Len(conv.results) :
        LET item == conv.items[Atoi(conv.results[k].ProviderId).val] IN
            /\ item.title # "" => conv.results[k].Title = item.title
            /\ item.title = "" => conv.results[k].Title = item.name

\* A page was converted that held one item with both fields set and one with
\* only the name.
TmdbTitleWitness ==
    /\ conv.stage = "done"
    /\ Len(conv.results) = 2
    /\ \E k \in 1..2 : /\ conv.items[k].title # "" /\ conv.items[k].name # ""
                       /\ conv.results[k].Title = conv.items[k].title
    /\ \E k \in 1..2 : /\ conv.items[k].title = "" /\ conv.items[k].name # ""
                       /\ conv.results[k].Title = conv.items[k].name

\* The latest response claimed that more is to come and left quota unfilled.
ClaimsMore ==
    \/ /\ TmdbPage
       /\ lastResp.totalPages > lastCall.page
       /\ MappedOnPage < lastCall.remaining
    \/ /\ OmdbPage
       /\ Atoi(lastResp.totalResults).val > Len(results)
       /\ Len(lastResp.items) < lastCall.remaining

\* C22: there is no ceiling on the pages: whenever the latest response
\* claimed more and left quota unfilled, whatever the page number, Search has
\* not returned and goes on to the page after it; so against a provider whose
\* every response is such, the call asks for page after page and never returns.
NoPageCeiling ==
    ClaimsMore => /\ pc = "loop"
                  /\ pageNumber = lastCall.page + 1
                  /\ Len(results) < maxResults

\* TMDB served only unmapped items and claimed more pages than it has on its
\* last page: the call, still empty-handed, is about to ask for a page beyond.
NoPageCeilingWitness ==
    /\ adapter = "tmdb"
    /\ ClaimsMore
    /\ ctx = "live"
    /\ Len(corpus) = MaxPages
    /\ lastCall.page = MaxPages
    /\ lastResp.totalPages > Len(corpus)
    /\ lastResp.items # <<>>
    /\ results = <<>>
    /\ pageNumber = MaxPages + 1

\* C23: when OMDB answers a page after the first with "Movie not found!",
\* Search returns what it accumulated from the pages before, with a nil error.
NotFoundLaterKeepsResults ==
    (/\ Returned
     /\ adapter = "omdb"
     /\ Decoded
     /\ lastResp.Error = TitleNotFound
     /\ lastCall.page > 1) =>
        /\ err = NoError
        /\ ~retNil
        /\ ret = results
        /\ Len(ret) = lastCall.before
        /\ Len(ret) < maxResults

NotFoundLaterWitness ==
    /\ Returned
    /\ adapter = "omdb"
    /\ Decoded
    /\ lastResp.Error = TitleNotFound
    /\ lastCall.page = 2
    /\ Len(ret) >= 1
    /\ err = NoError

\* C24: an OMDB page without Error whose totalResults is missing or not a
\* decimal integer makes Search return nil and an error, also when the page's
\* items were appended and filled the quota.
UnparsableTotalFails ==
    (/\ Returned
     /\ adapter = "omdb"
     /\ Decoded
     /\ lastResp.Error = ""
     /\ ~Atoi(lastResp.totalResults).ok) =>
        /\ err # NoError
        /\ retNil
        /\ ret = <<>>

\* The items of the page were appended and filled the quota, and totalResults
\* was "N/A".
UnparsableTotalWitness ==
    /\ Returned
    /\ adapter = "omdb"
    /\ Decoded
    /\ lastResp.Error = ""
    /\ lastResp.totalResults = <<"N", "/", "A">>
    /\ AppendedByPage > 0
    /\ Len(results) = maxResults
    /\ err # NoError

\* C25: TMDB is asked for page p+1 only when the response to page p reported
\* total_pages > p, so the page asked for next is at most that total_pages;
\* when total_pages is the same P in every response (the provider reporting
\* the pages it has), at most max(1, P) pages are asked for.
TmdbPageBound ==
    adapter = "tmdb" =>
        /\ (pc = "loop" /\ processed >= 1) =>
               /\ TmdbPage
               /\ lastResp.totalPages > lastCall.page
               /\ pageNumber = lastCall.page + 1
               /\ pageNumber <= lastResp.totalPages
        /\ honest => Len(requests) <= (IF Len(corpus) >= 1 THEN Len(corpus) ELSE 1)

\* The call ended on the last page TMDB reported, with quota left.
TmdbPageBoundWitness ==
    /\ adapter = "tmdb"
    /\ honest
    /\ Succeeded
    /\ Len(corpus) = MaxPages
    /\ Len(requests) = MaxPages
    /\ lastResp.totalPages = MaxPages
    /\ Len(results) >= 1
    /\ Len(results) < maxResults

\* C26: the results accumulated before a step are a prefix of the results
\* after it, and pageNumber goes up by exactly one when the loop continues
\* and stays otherwise.
AppendOnly ==
    [][/\ Len(results') >= Len(results)
       /\ SubSeq(results', 1, Len(results)) = results
       /\ (pc = "waiting" /\ pc' = "loop") => pageNumber' = pageNumber + 1
       /\ (pc = "waiting" /\ pc' = "done") => pageNumber' = pageNumber
       /\ pc = "loop" => pageNumber' = pageNumber]_vars

\* Two pages each added results to the slice and the loop went on.
AppendOnlyWitness ==
    /\ processed = 2
    /\ pc = "loop"
    /\ pageNumber = 3
    /\ lastCall.before > 0
    /\ Len(results) > lastCall.before

\* C27: a TMDB response with status 200 and an empty status_message is a
\* successful page also when its success flag is false or missing: no error,
\* its items are mapped and its total_pages decides whether to go on.
SuccessFlagAloneIsNoError ==
    (/\ adapter = "tmdb"
     /\ Decoded
     /\ lastResp.status = StatusOK
     /\ ~lastResp.success
     /\ lastResp.statusMessage = "") =>
        /\ err = NoError
        /\ AppendedByPage = Min(MappedOnPage, lastCall.remaining)
        /\ lastCall.next <=> (/\ lastCall.page < lastResp.totalPages
                              /\ MappedOnPage < lastCall.remaining)

SuccessFlagWitness ==
    /\ adapter = "tmdb"
    /\ Decoded
    /\ lastResp.status = StatusOK
    /\ ~lastResp.success
    /\ lastResp.statusMessage = ""
    /\ AppendedByPage >= 1
    /\ lastCall.next
    /\ lastCall.page = 1

=============================================================================
